---- MODULE Spec2Model ----
(***************************************************************************)
(* A model of the code-quality orchestration of recipes-convertor:         *)
(*   scripts/lib/command.py            Command / CommandResult             *)
(*   scripts/lib/audit/__init__.py     FileAuditResult, Auditor, discovery *)
(*   scripts/lib/audit/format/...      FileFormatResult, Formatter         *)
(*   scripts/lib/audit/auditors/flake8.py, format/formatters/black.py      *)
(*   scripts/tasks/audit.py, scripts/tasks/format.py   the two commands    *)
(*                                                                         *)
(* Python's Optional values are written None == <<>> and Some(v) == <<v>>. *)
(***************************************************************************)
EXTENDS Integers, Sequences, FiniteSets, TLC

None == <<>>
Some(v) == <<v>>

(***************************************************************************)
(* Bounds of the model.                                                    *)
(***************************************************************************)
MaxTargets == 2
MaxCandidates == 2
MaxNameLen == 3
MaxArgs == 2

(***************************************************************************)
(* Characters and the str methods the code uses.                           *)
(* "e'" stands for U+00E9, a lowercase letter outside ASCII.               *)
(***************************************************************************)
LowerAscii == {"a", "l", "p", "y", "t", "x"}
UpperAscii == {"A", "L", "P", "Y"}
Digits == {"1", "8"}
OtherLower == {"e'"}

\* str.lower() on one character
LowerChar(c) ==
    CASE c = "A" -> "a"
      [] c = "L" -> "l"
      [] c = "P" -> "p"
      [] c = "Y" -> "y"
      [] OTHER -> c

\* str.lower()
RECURSIVE lower(_)
lower(s) == IF s = <<>> THEN <<>> ELSE <<LowerChar(Head(s))>> \o lower(Tail(s))

\* str.isalnum(): non-empty and every character is a letter or a digit
isalnum(s) ==
    /\ Len(s) > 0
    /\ \A i \in 1..Len(s) : s[i] \in LowerAscii \cup UpperAscii \cup Digits \cup OtherLower

\* str.islower(): at least one cased character and no uppercase one
islower(s) ==
    /\ \E i \in 1..Len(s) : s[i] \in LowerAscii \cup OtherLower
    /\ \A i \in 1..Len(s) : s[i] \notin UpperAscii

\* needle in haystack, for str operands
Contains(needle, hay) ==
    \E i \in 0..(Len(hay) - Len(needle)) :
        \A j \in 1..Len(needle) : hay[i + j] = needle[j]

\* the text of a sequence of characters
RECURSIVE Text(_)
Text(s) == IF s = <<>> THEN "" ELSE Head(s) \o Text(Tail(s))

(***************************************************************************)
(* pathlib.Path: an anchor flag, the directory parts, the final            *)
(* component's stem and its suffix (characters, with the leading dot).     *)
(***************************************************************************)
Cwd == <<"w">>

APy     == [is_absolute |-> FALSE, dirs |-> <<>>,    stem |-> "a", suffix |-> <<".", "p", "y">>]
AbsAPy  == [is_absolute |-> TRUE,  dirs |-> <<"w">>, stem |-> "a", suffix |-> <<".", "p", "y">>]
BTxt    == [is_absolute |-> FALSE, dirs |-> <<>>,    stem |-> "b", suffix |-> <<".", "t", "x", "t">>]
DirD    == [is_absolute |-> FALSE, dirs |-> <<>>,    stem |-> "d", suffix |-> <<>>]
Missing == [is_absolute |-> FALSE, dirs |-> <<>>,    stem |-> "m", suffix |-> <<".", "p", "y">>]

\* what click hands to main as file_paths
Paths == {APy, AbsAPy, BTxt, DirD, Missing}

\* Path.absolute(): anchors a relative path at the working directory
absolute(p) ==
    IF p.is_absolute THEN p
    ELSE [p EXCEPT !.is_absolute = TRUE, !.dirs = Cwd \o p.dirs]

RECURSIVE JoinDirs(_)
JoinDirs(ds) == IF ds = <<>> THEN "" ELSE Head(ds) \o "/" \o JoinDirs(Tail(ds))

\* str(path)
str(p) == (IF p.is_absolute THEN "/" ELSE "") \o JoinDirs(p.dirs) \o p.stem \o Text(p.suffix)

\* str(path.absolute()) of every path the run can meet, computed once
AbsPathOf == [p \in Paths |-> str(absolute(p))]

AbsKeys == {AbsPathOf[p] : p \in Paths}

\* the filesystem before the run: entry kind of each absolute path
InitialFs ==
    [k \in AbsKeys |->
        IF k = AbsPathOf[DirD] THEN "dir"
        ELSE IF k = AbsPathOf[Missing] THEN "missing"
        ELSE "file"]

VARIABLES
    command,             \* "audit" (tasks/audit.py) or "format" (tasks/format.py)
    plugins_to_use,      \* auditors_to_use / formatters_to_use: names, in order
    file_paths_to_check, \* the targets, in order
    fs,                  \* filesystem: absolute path text -> "file" | "dir" | "missing"
    content,             \* absolute path text -> "original" | "rewritten"
    pc,                  \* position of main and of the generator it drives
    pi,                  \* index of the plugin of the outer loop
    ti,                  \* index of the target of the generator's loop
    child,               \* the child process Command.run is blocked on, or None
    check_result,        \* BlackFormatter.format's local check_result, or None
    pending,             \* the result the generator has yielded, not yet consumed
    results,             \* main's results: path text -> plugin name -> record
    was_successful,      \* main's flag
    report_file,         \* None, or Some(mapping written to the output file)
    exit_status,         \* "running" | "zero" | "nonzero"
    message,             \* what the process printed when it ended
    error,               \* the exception that ended the run, or None
    processes,           \* log: every child process that ran, with its exit code
    yielded,             \* log: every result the generator yielded
    skipped,             \* log: (plugin index, target index) skipped as unsupported
    todo,                \* discovery: candidate classes still to scan
    registry,            \* discovery: the dict under construction
    accepted,            \* discovery log: candidates that passed validation
    dpc,                 \* discovery: "scanning" | "exposed" | "failed"
    AVAILABLE,           \* the module-level table, None until discovery returns
    call,                \* Command: the arguments of one Command(...).run(...)
    tool,                \* Command: can the executable be started: "present" | "absent"
    cpc,                 \* Command: "idle" | "called" | "running" | "returned" | "raised"
    argv,                \* Command: the words the started program runs with, or None
    outcome,             \* Command: the CommandResult run returned, or None
    raised               \* Command: the exception that left run, or None

runVars == <<command, plugins_to_use, file_paths_to_check, fs, content, pc, pi, ti,
             child, check_result, pending, results, was_successful, report_file,
             exit_status, message, error, processes, yielded, skipped>>
discVars == <<todo, registry, accepted, dpc, AVAILABLE>>
cmdVars == <<call, tool, cpc, argv, outcome, raised>>
vars == <<runVars, discVars, cmdVars>>

(***************************************************************************)
(* The filesystem queries of pathlib, resolved against the working         *)
(* directory.                                                              *)
(***************************************************************************)
exists(f, p) == f[AbsPathOf[p]] # "missing"
is_file(f, p) == f[AbsPathOf[p]] = "file"
is_dir(f, p) == f[AbsPathOf[p]] = "dir"

\* a plausible slip: the extension is looked at for directories too
is_supported_filetype_ByExtensionOnly(f, p) == Contains(<<"p", "y">>, lower(p.suffix))

\* FlakeEightAuditor.is_supported_filetype / BlackFormatter.is_supported_filetype
is_supported_filetype(f, p) ==
    IF is_dir(f, p) THEN TRUE ELSE Contains(<<"p", "y">>, lower(p.suffix))

(***************************************************************************)
(* Command: the constructed command and the CommandResult of a finished    *)
(* child.  Every plugin calls run(check=False) and keeps the defaults      *)
(* use_shell=True, capture_output=True.                                    *)
(***************************************************************************)
RECURSIVE JoinSpace(_)
JoinSpace(tokens) ==
    IF tokens = <<>> THEN ""
    ELSE IF Len(tokens) = 1 THEN Head(tokens)
    ELSE Head(tokens) \o " " \o JoinSpace(Tail(tokens))

\* (x or []) for an optional list
OrEmpty(opt) == IF opt = None THEN <<>> ELSE opt[1]

\* Command._execute: prefix + base + suffix, joined for the shell
constructed_command(base, command_prefix, command_suffix, use_shell) ==
    LET tokens == OrEmpty(command_prefix) \o base \o OrEmpty(command_suffix)
    IN  IF use_shell THEN JoinSpace(tokens) ELSE tokens

\* bytes.decode("utf-8") if bytes else None; the pipe's bytes are None when the
\* stream was not captured
Decoded(bytes) == IF bytes # None /\ bytes[1] # "" THEN Some(bytes[1]) ELSE None

\* CommandResult.from_subprocess_result
from_subprocess_result(completed, captured) ==
    [returncode |-> completed.returncode,
     captured_output |-> captured,
     error |-> None,
     stdout |-> Decoded(completed.stdout),
     stderr |-> Decoded(completed.stderr)]

\* CommandResult.combined_output
combined_output(cr) == [stdout |-> cr.stdout, stderr |-> cr.stderr]

\* the exit codes a child may end with: clean, findings, usage error, and the
\* shell's code for a command it could not start
ExitCodes == {0, 1, 2, 127}

\* what a child has written to its pipes when it ends with code c: nothing
\* when clean, its findings on stdout, a failure report on stderr
ChildWrites(c) ==
    IF c = 0 THEN [stdout |-> "", stderr |-> ""]
    ELSE IF c = 1 THEN [stdout |-> "findings", stderr |-> ""]
    ELSE [stdout |-> "", stderr |-> "failure"]

\* the tokens each verb gives to Command
Executable(verb) ==
    CASE verb = "audit" -> <<"flake8">>
      [] verb = "check" -> <<"black", "--check">>
      [] verb = "format" -> <<"black">>

\* main's command_prefix argument (do_not_use_mise_exec keeps its default)
MisePrefix == Some(<<"mise", "exec", "--">>)

\* the child a verb starts on a target: Command(...).run(check=False, ...)
Spawn(verb, p) ==
    [verb |-> verb,
     cmd |-> constructed_command(Executable(verb), MisePrefix, Some(<<str(p)>>), TRUE)]

(***************************************************************************)
(* The result objects.                                                     *)
(***************************************************************************)
\* PathType snapshot taken in __init__
PathTypeOf(f, p) == IF is_file(f, p) THEN "file" ELSE "directory"

\* FileAuditResult.__init__
FileAuditResult(f, p, plugin, valid, output) ==
    [class |-> "FileAuditResult", path |-> p, path_type |-> PathTypeOf(f, p),
     valid |-> valid, plugin |-> plugin, output |-> output]

\* FileFormatResult.__init__
FileFormatResult(f, p, plugin, valid, formatted, output) ==
    [class |-> "FileFormatResult", path |-> p, path_type |-> PathTypeOf(f, p),
     valid |-> valid, plugin |-> plugin, formatted |-> formatted, output |-> output]

\* FileAuditResult.serialize / FileFormatResult.serialize
serialize(r) ==
    IF r.class = "FileAuditResult"
    THEN [path |-> str(r.path), path_type |-> r.path_type, valid |-> r.valid,
          output |-> r.output]
    ELSE [path |-> str(r.path), path_type |-> r.path_type, valid |-> r.valid,
          formatted |-> r.formatted, output |-> r.output]

\* AuditorError / FormatterError
ToolError(cmd, msg, exit_code) ==
    [type |-> IF cmd = "audit" THEN "AuditorError" ELSE "FormatterError",
     reason |-> msg, exit_code |-> exit_code]

(***************************************************************************)
(* The run of a command: tasks/audit.py main and tasks/format.py main,     *)
(* driving perform_auditor_operation / perform_formatter_operation.        *)
(***************************************************************************)
Range(s) == {s[i] : i \in 1..Len(s)}

\* the repository's own plugin of each family, and one further plugin of the
\* same contract, so that "all" can select more than one
OwnPlugin(cmd) == IF cmd = "audit" THEN "flake8" ELSE "black"
FurtherPlugins == <<"plugin2">>

\* AVAILABLE_AUDITORS / AVAILABLE_FORMATTERS with n entries, in insertion order
Available(cmd, n) ==
    IF n = 0 THEN <<>> ELSE <<OwnPlugin(cmd)>> \o SubSeq(FurtherPlugins, 1, n - 1)

\* [AVAILABLE[name]] if name != "all" else list(AVAILABLE.values())
Selected(table, option) == IF option # "all" THEN <<option>> ELSE table

TargetLists == UNION {[1..n -> Paths] : n \in 1..MaxTargets}

InitDiscIdle ==
    /\ todo = <<>>
    /\ registry = <<>>
    /\ accepted = <<>>
    /\ dpc = "idle"
    /\ AVAILABLE = None

InitRun ==
    /\ command \in {"audit", "format"}
    /\ \E n \in 0..(1 + Len(FurtherPlugins)) :
         \E option \in {"all"} \cup Range(Available(command, n)) :
            plugins_to_use = Selected(Available(command, n), option)
    /\ file_paths_to_check \in TargetLists
    /\ fs = InitialFs
    /\ content = [k \in AbsKeys |-> "original"]
    /\ pc = "plugins"
    /\ pi = 1
    /\ ti = 1
    /\ child = None
    /\ check_result = None
    /\ pending = None
    /\ results = <<>>
    /\ was_successful = TRUE
    /\ report_file = None
    /\ exit_status = "running"
    /\ message = "none"
    /\ error = None
    /\ processes = <<>>
    /\ yielded = <<>>
    /\ skipped = {}

InitCmdIdle ==
    /\ call = None
    /\ tool = "present"
    /\ cpc = "idle"
    /\ argv = None
    /\ outcome = None
    /\ raised = None

Init == InitRun /\ InitDiscIdle /\ InitCmdIdle

\* a plausible slip: main dumps what it has collected when an exception passes
RaiseAfterDump(e) ==
    /\ error' = Some(e)
    /\ pc' = "fatal"
    /\ exit_status' = "nonzero"
    /\ message' = "traceback"
    /\ report_file' = Some(results)

\* an exception leaves main: no report, a traceback, a non-zero exit
Raise(e) ==
    /\ error' = Some(e)
    /\ pc' = "fatal"
    /\ exit_status' = "nonzero"
    /\ message' = "traceback"
    /\ UNCHANGED report_file

\* for plugin in plugins_to_use: start the plugin's generator
NextPlugin ==
    /\ pc = "plugins"
    /\ pi <= Len(plugins_to_use)
    /\ pc' = "targets"
    /\ ti' = 1
    /\ UNCHANGED <<command, plugins_to_use, file_paths_to_check, fs, content, pi,
                   child, check_result, pending, results, was_successful,
                   report_file, exit_status, message, error, processes, yielded,
                   skipped>>

\* the verb the generator calls for the command's operation
FirstVerb(cmd) == IF cmd = "audit" THEN "audit" ELSE "check"

\* the generator calls the verb, which blocks in Command.run
CallVerb(p) ==
    /\ child' = Some(Spawn(FirstVerb(command), p))
    /\ pc' = "child"
    /\ UNCHANGED <<pi, ti, error, exit_status, message, report_file>>

\* a plausible slip: a missing target is passed over like an unsupported one
MissingTargetPassedOver(p) ==
    /\ skipped' = skipped \cup {<<pi, ti>>}
    /\ ti' = ti + 1
    /\ UNCHANGED <<pc, pi, child, error, exit_status, message, report_file>>

\* if not file_path.exists(): raise
MissingTarget(p) ==
    /\ Raise(ToolError(command, "File does not exist", None))
    /\ UNCHANGED <<pi, ti, child, skipped>>

\* a plausible slip: the warning is logged but the continue is missing
UnsupportedTargetFallsThrough(p) ==
    /\ skipped' = skipped \cup {<<pi, ti>>}
    /\ CallVerb(p)

\* if not cls.is_supported_filetype(file_path): warn and continue
UnsupportedTarget(p) ==
    /\ skipped' = skipped \cup {<<pi, ti>>}
    /\ ti' = ti + 1
    /\ UNCHANGED <<pc, pi, child, error, exit_status, message, report_file>>

\* perform_*_operation: one pass of "for file_path in resolved_file_paths" up
\* to the verb's Command.run
ExamineTarget ==
    /\ pc = "targets"
    /\ IF ti > Len(file_paths_to_check)
       THEN /\ pc' = "plugins"
            /\ pi' = pi + 1
            /\ UNCHANGED <<ti, child, skipped, error, exit_status, message, report_file>>
       ELSE LET p == file_paths_to_check[ti] IN
            IF ~exists(fs, p) THEN MissingTarget(p)
            ELSE IF ~is_supported_filetype(fs, p) THEN UnsupportedTarget(p)
            ELSE CallVerb(p) /\ UNCHANGED skipped
    /\ UNCHANGED <<command, plugins_to_use, file_paths_to_check, fs, content,
                   check_result, pending, results, was_successful,
                   processes, yielded>>

\* the generator yields r and is suspended at the yield
Yield(r) ==
    /\ pending' = Some(r)
    /\ yielded' = Append(yielded, [pi |-> pi, ti |-> ti, result |-> r])
    /\ pc' = "yielded"
    /\ child' = None
    /\ UNCHANGED report_file

\* what the destructive command may leave behind when it fails
AfterFailedFormat(old) == {old, "rewritten"}

\* a plausible slip: valid = (returncode == 0) without the match on the code
AuditReturnsNonZeroInvalid(p, cr) ==
    /\ Yield(FileAuditResult(fs, p, plugins_to_use[pi], cr.returncode = 0,
                             Some(combined_output(cr))))
    /\ UNCHANGED <<error, exit_status, message>>

\* FlakeEightAuditor.audit after Command.run returned
AuditReturns(p, cr) ==
    IF cr.returncode = 0
    THEN /\ Yield(FileAuditResult(fs, p, plugins_to_use[pi], TRUE, Some(combined_output(cr))))
         /\ UNCHANGED <<error, exit_status, message>>
    ELSE IF cr.returncode = 1
    THEN /\ Yield(FileAuditResult(fs, p, plugins_to_use[pi], FALSE, Some(combined_output(cr))))
         /\ UNCHANGED <<error, exit_status, message>>
    ELSE /\ Raise(ToolError(command, "Unknown error", Some(cr.returncode)))
         /\ child' = None
         /\ UNCHANGED <<pending, yielded>>

\* a plausible slip: format runs the destructive command whatever check said
CheckReturnsAlwaysFormats(p, cr) ==
    IF cr.returncode \in {0, 1}
    THEN /\ check_result' = Some(FileFormatResult(fs, p, plugins_to_use[pi],
                                                  cr.returncode = 0, None,
                                                  Some(combined_output(cr))))
         /\ child' = Some(Spawn("format", p))
         /\ UNCHANGED <<pc, pending, yielded, error, exit_status, message, report_file>>
    ELSE /\ Raise(ToolError(command, "Unknown error", Some(cr.returncode)))
         /\ child' = None
         /\ UNCHANGED <<check_result, pending, yielded>>

\* BlackFormatter.check after Command.run returned, as called by format:
\* valid ends format at once, invalid starts the destructive command
CheckReturns(p, cr) ==
    IF cr.returncode = 0
    THEN /\ check_result' = Some(FileFormatResult(fs, p, plugins_to_use[pi], TRUE, None,
                                                  Some(combined_output(cr))))
         /\ Yield(FileFormatResult(fs, p, plugins_to_use[pi], TRUE, Some(FALSE), None))
         /\ UNCHANGED <<error, exit_status, message>>
    ELSE IF cr.returncode = 1
    THEN /\ check_result' = Some(FileFormatResult(fs, p, plugins_to_use[pi], FALSE, None,
                                                  Some(combined_output(cr))))
         /\ child' = Some(Spawn("format", p))
         /\ UNCHANGED <<pc, pending, yielded, error, exit_status, message, report_file>>
    ELSE /\ Raise(ToolError(command, "Unknown error", Some(cr.returncode)))
         /\ child' = None
         /\ UNCHANGED <<check_result, pending, yielded>>

\* a plausible slip: format reports the verdict of its check as valid
FormatReturnsCheckVerdict(p, cr) ==
    IF cr.returncode # 0
    THEN /\ Raise(ToolError(command, "Failed to format file", Some(cr.returncode)))
         /\ child' = None
         /\ UNCHANGED <<pending, yielded>>
    ELSE /\ Yield(FileFormatResult(fs, p, plugins_to_use[pi], check_result[1].valid,
                                   Some(~check_result[1].valid), Some(combined_output(cr))))
         /\ UNCHANGED <<error, exit_status, message>>

\* a plausible slip: the destructive command's exit code is not looked at
FormatReturnsUnchecked(p, cr) ==
    /\ Yield(FileFormatResult(fs, p, plugins_to_use[pi], TRUE,
                              Some(~check_result[1].valid), Some(combined_output(cr))))
    /\ UNCHANGED <<error, exit_status, message>>

\* BlackFormatter.format after the destructive command's Command.run returned
FormatReturns(p, cr) ==
    IF cr.returncode # 0
    THEN /\ Raise(ToolError(command, "Failed to format file", Some(cr.returncode)))
         /\ child' = None
         /\ UNCHANGED <<pending, yielded>>
    ELSE /\ Yield(FileFormatResult(fs, p, plugins_to_use[pi], TRUE,
                                   Some(~check_result[1].valid), Some(combined_output(cr))))
         /\ UNCHANGED <<error, exit_status, message>>

\* a plausible slip: the second command is run with --check too and writes nothing
RewritesNothing(verb, c, old) == {old}

\* what the file holds after a child of the verb ended with code c: only the
\* destructive command writes, and it has written when it ends with 0
Rewrites(verb, c, old) ==
    IF verb # "format" THEN {old}
    ELSE IF c = 0 THEN {"rewritten"}
    ELSE AfterFailedFormat(old)

\* the child ends with code c having written w; the verb classifies the outcome
ChildExit ==
    /\ pc = "child"
    /\ \E c \in ExitCodes :
         LET w == ChildWrites(c)
             p == file_paths_to_check[ti]
             k == AbsPathOf[p]
             verb == child[1].verb
             cr == from_subprocess_result(
                       [returncode |-> c, stdout |-> Some(w.stdout),
                        stderr |-> Some(w.stderr)], TRUE)
         IN  /\ processes' = Append(processes,
                    [pi |-> pi, ti |-> ti, verb |-> verb, cmd |-> child[1].cmd,
                     returncode |-> c])
             /\ \E after \in Rewrites(verb, c, content[k]) :
                    content' = [content EXCEPT ![k] = after]
             /\ CASE verb = "audit" -> AuditReturns(p, cr) /\ UNCHANGED check_result
                  [] verb = "check" -> CheckReturns(p, cr)
                  [] verb = "format" -> FormatReturns(p, cr) /\ UNCHANGED check_result
    /\ UNCHANGED <<command, plugins_to_use, file_paths_to_check, fs, pi, ti, results,
                   was_successful, skipped>>

\* a plausible slip: the inner dict is created but the record is not stored
InsertCreatesOnly(table, abs_path, name, record) ==
    IF abs_path \in DOMAIN table THEN table ELSE table @@ (abs_path :> <<>>)

\* results[abs_path][name] = record, creating the inner dict when absent
Insert(table, abs_path, name, record) ==
    IF abs_path \in DOMAIN table
    THEN [table EXCEPT ![abs_path] =
            IF name \in DOMAIN @ THEN [@ EXCEPT ![name] = record] ELSE @ @@ (name :> record)]
    ELSE table @@ (abs_path :> (name :> record))

\* a plausible slip: the flag follows the latest result
FlagLastWins(flag, valid) == valid

\* not result.valid and was_successful  ->  was_successful = False
Flag(flag, valid) == IF ~valid /\ flag THEN FALSE ELSE flag

\* the body of main's inner for loop, then the generator resumes
Consume ==
    /\ pc = "yielded"
    /\ LET result == pending[1]
           key == AbsPathOf[result.path]
       IN  /\ results' = Insert(results, key, plugins_to_use[pi], serialize(result))
           /\ was_successful' = Flag(was_successful, result.valid)
    /\ pending' = None
    /\ ti' = ti + 1
    /\ pc' = "targets"
    /\ UNCHANGED <<command, plugins_to_use, file_paths_to_check, fs, content, pi, child,
                   check_result, report_file, exit_status, message, error, processes,
                   yielded, skipped>>

\* a plausible slip: the failure is logged but the ClickException is not raised
ExitAlwaysZero ==
    /\ exit_status' = "zero"
    /\ message' = IF ~was_successful THEN "failed, see output" ELSE "finished"

\* if not was_successful: raise click.ClickException(...), else finish
ExitByFlag ==
    IF ~was_successful
    THEN /\ exit_status' = "nonzero"
         /\ message' = "failed, see output"
    ELSE /\ exit_status' = "zero"
         /\ message' = "finished"

\* after the loops: write the report, then fail or finish by the flag
Finish ==
    /\ pc = "plugins"
    /\ pi > Len(plugins_to_use)
    /\ report_file' = Some(results)
    /\ pc' = "done"
    /\ ExitByFlag
    /\ UNCHANGED <<command, plugins_to_use, file_paths_to_check, fs, content, pi, ti, child,
                   check_result, pending, results, was_successful, error, processes,
                   yielded, skipped>>

\* another process removes the target while the orchestrator waits for the
\* child that works on it
Unlink ==
    /\ pc = "child"
    /\ LET k == AbsPathOf[file_paths_to_check[ti]]
       IN  /\ fs[k] # "missing"
           /\ fs' = [fs EXCEPT ![k] = "missing"]
    /\ UNCHANGED <<command, plugins_to_use, file_paths_to_check, content, pc, pi, ti, child,
                   check_result, pending, results, was_successful, report_file,
                   exit_status, message, error, processes, yielded, skipped>>

Next ==
    \/ (NextPlugin /\ UNCHANGED <<discVars, cmdVars>>)
    \/ (ExamineTarget /\ UNCHANGED <<discVars, cmdVars>>)
    \/ (ChildExit /\ UNCHANGED <<discVars, cmdVars>>)
    \/ (Consume /\ UNCHANGED <<discVars, cmdVars>>)
    \/ (Finish /\ UNCHANGED <<discVars, cmdVars>>)
    \/ (Unlink /\ UNCHANGED <<discVars, cmdVars>>)

Spec == Init /\ [][Next]_vars

(***************************************************************************)
(* Reading the logs.                                                       *)
(***************************************************************************)
\* indices of the child processes run for item (p, t)
ProcsOf(p, t) == {i \in DOMAIN processes : processes[i].pi = p /\ processes[i].ti = t}
\* indices of the results yielded for item (p, t)
YieldsOf(p, t) == {i \in DOMAIN yielded : yielded[i].pi = p /\ yielded[i].ti = t}
\* the absolute path text of target t
KeyOf(t) == AbsPathOf[file_paths_to_check[t]]
\* item (p, t) has exactly one result, and its valid field is v
OneResult(p, t, v) ==
    /\ Cardinality(YieldsOf(p, t)) = 1
    /\ \A i \in YieldsOf(p, t) : yielded[i].result.valid = v
\* the run ended in a tool error carrying exit code c, raised for item (p, t)
FatalWith(p, t, c) ==
    /\ pc = "fatal"
    /\ pi = p /\ ti = t
    /\ error # None
    /\ error[1].exit_code = Some(c)
    /\ error[1].type = (IF command = "audit" THEN "AuditorError" ELSE "FormatterError")
\* process i was the last thing the run did before an exception ended it
EndedAt(i) == pc = "fatal" /\ i = Len(processes) /\ error[1].exit_code # None
\* index of the latest check process
LastCheck == CHOOSE i \in DOMAIN processes :
                /\ processes[i].verb = "check"
                /\ \A j \in DOMAIN processes : processes[j].verb = "check" => j <= i

(***************************************************************************)
(* C1.  The inspecting verbs classify by exit code only.  For every audit  *)
(* or check child that has ended with code c: c = 0 gives a result with    *)
(* valid = TRUE and no error; c = 1 gives a result with valid = FALSE and  *)
(* no error; any other c gives no result and a fatal tool error that       *)
(* carries c.  (The result of check is format's local check_result: it is  *)
(* read while the check is the latest one.)                                *)
(***************************************************************************)
C1_ExitCodeConvention ==
    \A i \in DOMAIN processes :
        LET e == processes[i]
            c == e.returncode
        IN  /\ (e.verb = "audit" /\ c \in {0, 1}) =>
                    /\ OneResult(e.pi, e.ti, c = 0)
                    /\ ~EndedAt(i)
            /\ (e.verb = "check" /\ c \in {0, 1}) =>
                    /\ i = LastCheck =>
                          /\ check_result # None
                          /\ check_result[1].valid = (c = 0)
                          /\ check_result[1].path = file_paths_to_check[e.ti]
                    /\ ~EndedAt(i)
            /\ (e.verb \in {"audit", "check"} /\ c \notin {0, 1}) =>
                    /\ YieldsOf(e.pi, e.ti) = {}
                    /\ FatalWith(e.pi, e.ti, c)
                    /\ i = Len(processes)

\* an audit that found problems was followed by one that crashed
C1_Witness ==
    /\ Len(processes) = 2
    /\ processes[1].verb = "audit" /\ processes[1].returncode = 1
    /\ processes[2].verb = "audit" /\ processes[2].returncode = 127
    /\ pc = "fatal"

(***************************************************************************)
(* C2.  format on a target whose check is valid (exit 0): one result,      *)
(* valid = TRUE and changed = FALSE; the check is the only child run for   *)
(* the item and no destructive command is running for it; the target's     *)
(* content is rewritten only if a destructive command of another item      *)
(* wrote the same file.                                                    *)
(***************************************************************************)
C2_ValidCheckShortCircuits ==
    \A i \in DOMAIN processes :
        LET e == processes[i] IN
        (e.verb = "check" /\ e.returncode = 0) =>
            /\ OneResult(e.pi, e.ti, TRUE)
            /\ \A y \in YieldsOf(e.pi, e.ti) : yielded[y].result.formatted = Some(FALSE)
            /\ ProcsOf(e.pi, e.ti) = {i}
            /\ ~(child # None /\ pi = e.pi /\ ti = e.ti)
            /\ content[KeyOf(e.ti)] # "original" =>
                 \E j \in DOMAIN processes :
                    /\ processes[j].verb = "format"
                    /\ <<processes[j].pi, processes[j].ti>> # <<e.pi, e.ti>>
                    /\ KeyOf(processes[j].ti) = KeyOf(e.ti)

\* a valid check has been answered and the file is as it was
C2_Witness ==
    /\ pc = "yielded"
    /\ Len(processes) = 1
    /\ processes[1].verb = "check" /\ processes[1].returncode = 0
    /\ pending[1].formatted = Some(FALSE)
    /\ content[KeyOf(ti)] = "original"

(***************************************************************************)
(* C3.  format on a target whose check is invalid (exit 1): the            *)
(* destructive command is started exactly once, right after the check;     *)
(* when it ends non-zero there is no result and the run ends in a fatal    *)
(* error carrying that code; when it ends 0 there is one result with       *)
(* valid = TRUE and changed = TRUE.                                        *)
(***************************************************************************)
C3_InvalidCheckFormats ==
    \A i \in DOMAIN processes :
        LET e == processes[i] IN
        (e.verb = "check" /\ e.returncode = 1) =>
            IF i = Len(processes)
            THEN /\ pc = "child" /\ pi = e.pi /\ ti = e.ti
                 /\ child # None /\ child[1].verb = "format"
                 /\ YieldsOf(e.pi, e.ti) = {}
            ELSE LET f == processes[i + 1] IN
                 /\ f.verb = "format" /\ f.pi = e.pi /\ f.ti = e.ti
                 /\ ProcsOf(e.pi, e.ti) = {i, i + 1}
                 /\ ~(child # None /\ pi = e.pi /\ ti = e.ti)
                 /\ f.returncode # 0 =>
                        /\ YieldsOf(e.pi, e.ti) = {}
                        /\ FatalWith(e.pi, e.ti, f.returncode)
                 /\ f.returncode = 0 =>
                        /\ OneResult(e.pi, e.ti, TRUE)
                        /\ \A y \in YieldsOf(e.pi, e.ti) :
                              yielded[y].result.formatted = Some(TRUE)
                        /\ ~EndedAt(i + 1)

\* one target was rewritten, the next one's destructive command failed
C3_Witness ==
    /\ Len(processes) = 4
    /\ processes[1].returncode = 1 /\ processes[2].returncode = 0
    /\ processes[3].returncode = 1 /\ processes[4].returncode = 1
    /\ processes[4].verb = "format"
    /\ Len(yielded) = 1
    /\ pc = "fatal"

(***************************************************************************)
(* C4.  In a run that completes, the success flag is the conjunction of    *)
(* the valid fields of all the results the orchestrator yielded (TRUE when *)
(* it yielded none).                                                       *)
(***************************************************************************)
C4_FlagIsConjunction ==
    pc = "done" => (was_successful <=> \A i \in DOMAIN yielded : yielded[i].result.valid)

\* a completed run with a valid result after an invalid one
C4_Witness ==
    /\ pc = "done"
    /\ Len(yielded) >= 2
    /\ ~yielded[1].result.valid
    /\ yielded[Len(yielded)].result.valid

(***************************************************************************)
(* C5.  At the end of a completed run the success flag is FALSE exactly    *)
(* when some record of the written report has valid = FALSE, also when     *)
(* several targets share one absolute path.                                *)
(***************************************************************************)
C5_FlagMatchesReport ==
    pc = "done" =>
        (~was_successful <=>
            \E k \in DOMAIN report_file[1] : \E n \in DOMAIN report_file[1][k] :
                ~report_file[1][k][n].valid)

(***************************************************************************)
(* C6.  A run that ended in a fatal error has written no report and exits  *)
(* non-zero, however many results it had yielded; a report that is written *)
(* was written by a run without error in which every selected plugin has   *)
(* finished (answered or skipped) every target.                            *)
(***************************************************************************)
Finished(p, t) == YieldsOf(p, t) # {} \/ <<p, t>> \in skipped

C6_NoReportOnFatal ==
    /\ error # None =>
          /\ report_file = None
          /\ exit_status = "nonzero"
          /\ pc = "fatal"
    /\ report_file # None =>
          /\ error = None
          /\ child = None /\ pending = None
          /\ \A p \in 1..Len(plugins_to_use) :
                \A t \in 1..Len(file_paths_to_check) : Finished(p, t)
          /\ \A i \in DOMAIN yielded :
                LET r == yielded[i].result
                    k == AbsPathOf[r.path]
                IN  k \in DOMAIN results /\ r.plugin \in DOMAIN results[k]

\* a tool error ended the run after results had been yielded and consumed
C6_Witness ==
    /\ pc = "fatal"
    /\ error[1].exit_code # None
    /\ Len(yielded) >= 2
    /\ DOMAIN results # {}
    /\ report_file = None

(***************************************************************************)
(* C7.  A target that does not exist when the generator reaches it ends    *)
(* the run: the very step that examines it raises the target-not-found     *)
(* error and starts no child, yields nothing and skips nothing; after the  *)
(* error nothing happens any more, so no verb has run on that target, no   *)
(* later item has been examined, and the earlier targets of the plugin     *)
(* have been processed.                                                    *)
(***************************************************************************)
NotFound == ToolError(command, "File does not exist", None)

Later(p, t) == p > pi \/ (p = pi /\ t > ti)

C7_AfterNotFound ==
    error = Some(NotFound) =>
        /\ pc = "fatal"
        /\ ~exists(fs, file_paths_to_check[ti])
        /\ child = None
        /\ ProcsOf(pi, ti) = {} /\ YieldsOf(pi, ti) = {} /\ <<pi, ti>> \notin skipped
        /\ \A p \in 1..Len(plugins_to_use) : \A t \in 1..Len(file_paths_to_check) :
              Later(p, t) => (ProcsOf(p, t) = {} /\ ~Finished(p, t))
        /\ \A t \in 1..(ti - 1) : Finished(pi, t)

C7_ReachingMissing ==
    (/\ pc = "targets"
     /\ ti <= Len(file_paths_to_check)
     /\ ~exists(fs, file_paths_to_check[ti]))
    => (/\ error' = Some(NotFound)
        /\ pc' = "fatal"
        /\ UNCHANGED <<pi, ti, child, processes, yielded, skipped, results>>)

C7_MissingTargetIsFatal ==
    /\ []C7_AfterNotFound
    /\ [][C7_ReachingMissing]_vars
    /\ [][pc # "fatal"]_vars

\* the second target had been removed while the first was being audited
C7_Witness ==
    /\ error = Some(NotFound)
    /\ ti = 2
    /\ Len(file_paths_to_check) = 2
    /\ Len(yielded) = 1
    /\ InitialFs[KeyOf(2)] = "file"

(***************************************************************************)
(* C8.  A target that exists and fails the applicability predicate is      *)
(* passed over: no child is run for it and nothing is yielded for it, the  *)
(* run does not end at it, a run that completes has finished every target  *)
(* after it, and its absolute path is no key of the results or of the      *)
(* written report.                                                         *)
(***************************************************************************)
C8_UnsupportedIsSkipped ==
    \A it \in skipped :
        LET p == it[1]
            t == it[2]
        IN  /\ ProcsOf(p, t) = {}
            /\ YieldsOf(p, t) = {}
            /\ ~(child # None /\ pi = p /\ ti = t)
            /\ ~(pc = "fatal" /\ pi = p /\ ti = t)
            /\ InitialFs[KeyOf(t)] # "missing"
            /\ pc = "done" =>
                  \A u \in (t + 1)..Len(file_paths_to_check) : Finished(p, u)
            /\ KeyOf(t) \notin DOMAIN results
            /\ report_file # None => KeyOf(t) \notin DOMAIN report_file[1]

\* an unsupported target was passed over and the target after it was answered
C8_Witness ==
    /\ pc = "done"
    /\ <<1, 1>> \in skipped
    /\ YieldsOf(1, 2) # {}
    /\ DOMAIN report_file[1] # {}

(***************************************************************************)
(* C9.  A run of either command that ends without a fatal error has        *)
(* written the report; it exits with code 0 exactly when the success flag  *)
(* is TRUE, and exits non-zero with the failure message that names the     *)
(* output file exactly when the flag is FALSE.                             *)
(***************************************************************************)
C9_ExitFollowsFlag ==
    pc = "done" =>
        /\ report_file = Some(results)
        /\ error = None
        /\ was_successful <=> (exit_status = "zero" /\ message = "finished")
        /\ ~was_successful <=> (exit_status = "nonzero" /\ message = "failed, see output")

\* a completed run that failed, with its report written
C9_Witness ==
    /\ pc = "done"
    /\ ~was_successful
    /\ report_file # None
    /\ exit_status = "nonzero"

(***************************************************************************)
(* Discovery: _discover_auditors / _discover_formatters and the module     *)
(* level assignment of AVAILABLE_AUDITORS / AVAILABLE_FORMATTERS.          *)
(* A candidate is a class found in the plugin package: its identity and    *)
(* its name attribute (None when the class defines none).                  *)
(***************************************************************************)
Alphabet == {"a", "l", "A", "1", "-", "e'"}

RECURSIVE NamesOfLen(_)
NamesOfLen(n) ==
    IF n = 0 THEN {<<>>}
    ELSE {<<c>> \o w : c \in Alphabet, w \in NamesOfLen(n - 1)}

\* every name attribute of up to MaxNameLen characters, and the missing one
Names == {None} \cup {Some(w) : w \in UNION {NamesOfLen(n) : n \in 0..MaxNameLen}}

\* a few names for the classes around the one whose name is arbitrary
Pool == {None, Some(<<"a">>), Some(<<"a", "l">>), Some(<<"a", "l", "l">>)}

\* the classes of a package, in the order inspect.getmembers gives them
Classes(names) == [i \in 1..Len(names) |-> [cls |-> i, name |-> names[i]]]

\* a package of up to MaxCandidates classes, at most one of them with a name
\* outside Pool
InitCandidates ==
    \/ todo = <<>>
    \/ \E n \in 1..MaxCandidates : \E l \in [1..n -> Pool] :
          \E j \in 1..n : \E x \in Names : todo = Classes([l EXCEPT ![j] = x])

InitRunIdle ==
    /\ command = "audit"
    /\ plugins_to_use = <<>>
    /\ file_paths_to_check = <<>>
    /\ fs = InitialFs
    /\ content = [k \in AbsKeys |-> "original"]
    /\ pc = "import"
    /\ pi = 1
    /\ ti = 1
    /\ child = None
    /\ check_result = None
    /\ pending = None
    /\ results = <<>>
    /\ was_successful = TRUE
    /\ report_file = None
    /\ exit_status = "running"
    /\ message = "none"
    /\ error = None
    /\ processes = <<>>
    /\ yielded = <<>>
    /\ skipped = {}

InitDiscovery ==
    /\ InitRunIdle
    /\ InitCmdIdle
    /\ InitCandidates
    /\ registry = <<>>
    /\ accepted = <<>>
    /\ dpc = "scanning"
    /\ AVAILABLE = None

\* the three checks of a candidate, in the order of the code
Rejected(item) ==
    \/ item.name = None
    \/ lower(item.name[1]) = <<"a", "l", "l">>
    \/ ~isalnum(item.name[1]) \/ ~islower(item.name[1])

\* auditors[item.name] = item
Put(table, key, value) ==
    IF key \in DOMAIN table THEN [table EXCEPT ![key] = value] ELSE table @@ (key :> value)

\* the message of the check that turns the candidate down
RejectionReason(item) ==
    IF item.name = None THEN "must define a 'name' class attribute"
    ELSE IF lower(item.name[1]) = <<"a", "l", "l">> THEN "cannot use 'all' as its name"
    ELSE "must have a name that contains only lowercase letters and numbers"

\* a plausible slip: a candidate that is turned down is logged and left out
DiscoverLeavesOut ==
    /\ dpc = "scanning"
    /\ todo # <<>>
    /\ LET item == Head(todo) IN
       IF Rejected(item)
       THEN /\ todo' = Tail(todo)
            /\ UNCHANGED <<registry, accepted>>
       ELSE /\ registry' = Put(registry, item.name[1], item.cls)
            /\ accepted' = Append(accepted, item)
            /\ todo' = Tail(todo)
    /\ UNCHANGED <<dpc, AVAILABLE, error, pc, exit_status, message, report_file>>
    /\ UNCHANGED <<command, plugins_to_use, file_paths_to_check, fs, content, pi, ti, child,
                   check_result, pending, results, was_successful, processes, yielded,
                   skipped>>

\* one pass of the loop over the classes of a module; the raise leaves the
\* import of the package, and with it the process
Discover ==
    /\ dpc = "scanning"
    /\ todo # <<>>
    /\ LET item == Head(todo) IN
       IF Rejected(item)
       THEN /\ dpc' = "failed"
            /\ Raise(ToolError(command, RejectionReason(item), None))
            /\ UNCHANGED <<todo, registry, accepted, AVAILABLE>>
       ELSE /\ registry' = Put(registry, item.name[1], item.cls)
            /\ accepted' = Append(accepted, item)
            /\ todo' = Tail(todo)
            /\ UNCHANGED <<dpc, AVAILABLE, error, pc, exit_status, message, report_file>>
    /\ UNCHANGED <<command, plugins_to_use, file_paths_to_check, fs, content, pi, ti, child,
                   check_result, pending, results, was_successful, processes, yielded,
                   skipped>>

\* return auditors;  AVAILABLE_AUDITORS = _discover_auditors()
Expose ==
    /\ dpc = "scanning"
    /\ todo = <<>>
    /\ AVAILABLE' = Some(registry)
    /\ dpc' = "exposed"
    /\ UNCHANGED <<todo, registry, accepted>>

\* the keys of the dict in insertion order: a key that is assigned again keeps
\* its place
RECURSIVE InsertionOrder(_)
InsertionOrder(log) ==
    IF log = <<>> THEN <<>>
    ELSE LET front == InsertionOrder(SubSeq(log, 1, Len(log) - 1))
             key == log[Len(log)].name[1]
         IN  IF key \in Range(front) THEN front ELSE Append(front, key)

\* AVAILABLE_AUDITOR_NAMES = list(AVAILABLE_AUDITORS.keys())
AVAILABLE_NAMES == IF AVAILABLE = None THEN None ELSE Some(InsertionOrder(accepted))

\* main's first statement: the plugins named by the option, which click has
\* checked against [*AVAILABLE_NAMES, "all"]
Select ==
    /\ dpc = "exposed"
    /\ pc = "import"
    /\ \E option \in {<<"a", "l", "l">>} \cup Range(AVAILABLE_NAMES[1]) :
          plugins_to_use' =
              Selected([i \in DOMAIN AVAILABLE_NAMES[1] |-> Text(AVAILABLE_NAMES[1][i])],
                       Text(option))
    /\ pc' = "plugins"
    /\ UNCHANGED <<command, file_paths_to_check, fs, content, pi, ti, child, check_result,
                   pending, results, was_successful, report_file, exit_status, message,
                   error, processes, yielded, skipped>>

NextDiscovery ==
    \/ (Discover /\ UNCHANGED cmdVars)
    \/ (Expose /\ UNCHANGED <<runVars, cmdVars>>)
    \/ (Select /\ UNCHANGED <<discVars, cmdVars>>)

SpecDiscovery == InitDiscovery /\ [][NextDiscovery]_vars

(***************************************************************************)
(* C10.  Discovery rejects a candidate exactly when its name is missing,   *)
(* empty, the reserved word all, or holds a character other than a-z and   *)
(* 0-9; every other candidate (a name of digits only too) is accepted and  *)
(* inserted; so every name of the registry is non-empty, made of a-z and   *)
(* 0-9 only, and different from all.                                       *)
(***************************************************************************)
WellFormed(name) ==
    /\ name # None
    /\ name[1] # <<>>
    /\ name[1] # <<"a", "l", "l">>
    /\ \A i \in 1..Len(name[1]) : name[1][i] \in LowerAscii \cup Digits

C10_NameValidation ==
    /\ \A i \in DOMAIN accepted :
          /\ WellFormed(accepted[i].name)
          /\ accepted[i].name[1] \in DOMAIN registry
    /\ dpc = "failed" => ~WellFormed(Head(todo).name)
    /\ \A key \in DOMAIN registry : WellFormed(Some(key))

(***************************************************************************)
(* C11.  Discovery is all or nothing.  While some candidate of the package *)
(* fails the name checks, the table and the list of names are not exposed  *)
(* and no plugin is selected; the pass that meets such a candidate ends    *)
(* discovery in a fatal error, whatever was put into the dict before; a    *)
(* table is exposed only when every candidate has been scanned and         *)
(* accepted, and from then on neither the table nor the list of names      *)
(* changes.                                                                *)
(***************************************************************************)
C11_NeverPartial ==
    /\ (\E i \in DOMAIN todo : Rejected(todo[i])) =>
          /\ AVAILABLE = None
          /\ AVAILABLE_NAMES = None
          /\ plugins_to_use = <<>>
    /\ dpc = "failed" =>
          /\ AVAILABLE = None
          /\ pc = "fatal"
          /\ exit_status = "nonzero"
          /\ error # None
    /\ AVAILABLE # None =>
          /\ todo = <<>>
          /\ dpc = "exposed"
          /\ AVAILABLE = Some(registry)

C11_RejectionIsFatal ==
    (dpc = "scanning" /\ todo # <<>> /\ Rejected(Head(todo)))
    => (dpc' = "failed" /\ AVAILABLE' = None /\ pc' = "fatal")

C11_ExposedIsFrozen ==
    AVAILABLE # None =>
        (AVAILABLE' = AVAILABLE /\ registry' = registry /\ accepted' = accepted)

C11_AllOrNothing ==
    /\ []C11_NeverPartial
    /\ [][C11_RejectionIsFatal]_vars
    /\ [][C11_ExposedIsFrozen]_vars

\* discovery failed at the second class, after the first had been put in
C11_Witness ==
    /\ dpc = "failed"
    /\ Len(accepted) = 1
    /\ DOMAIN registry # {}
    /\ Len(todo) = 1
    /\ AVAILABLE = None

(***************************************************************************)
(* C12.  Names do not collide within a family: every accepted class is     *)
(* the registry's entry under its own name, and the registry has as many   *)
(* entries as classes were accepted.                                       *)
(***************************************************************************)
C12_NamesDoNotCollide ==
    /\ Cardinality(DOMAIN registry) = Len(accepted)
    /\ \A i \in DOMAIN accepted :
          /\ accepted[i].name[1] \in DOMAIN registry
          /\ registry[accepted[i].name[1]] = accepted[i].cls

(***************************************************************************)
(* Command on its own: one Command(base).run(...) with the arguments a     *)
(* caller may pass, the start of the program and its end.                  *)
(* Here a token is the sequence of its pieces, a piece being the blank     *)
(* " " or a text without blanks: <<"my", " ", "file.py">> is the token     *)
(* "my file.py" and <<>> is the empty token.                               *)
(***************************************************************************)
\* the tokens of a list of blank-free texts
Pieces(texts) == [i \in DOMAIN texts |-> <<texts[i]>>]

\* the texts of a list of tokens
Texts(tokens) == [i \in DOMAIN tokens |-> Text(tokens[i])]

\* Optional(list of tokens) -> Optional(list of texts)
OptTexts(opt) == IF opt = None THEN None ELSE Some(Texts(opt[1]))

\* " ".join(tokens)
RECURSIVE Joined(_)
Joined(tokens) ==
    IF tokens = <<>> THEN <<>>
    ELSE IF Len(tokens) = 1 THEN Head(tokens)
    ELSE Head(tokens) \o <<" ">> \o Joined(Tail(tokens))

\* the shell splits the line it is given into words at the blanks
RECURSIVE sh_words(_, _)
sh_words(line, word) ==
    LET closed == IF word = <<>> THEN <<>> ELSE <<word>> IN
    IF line = <<>> THEN closed
    ELSE IF Head(line) = " " THEN closed \o sh_words(Tail(line), <<>>)
    ELSE sh_words(Tail(line), Append(word, Head(line)))

\* a parameter that was not passed takes the default of the signature
ArgOr(opt, default) == IF opt = None THEN default ELSE opt[1]

\* the commands the plugins construct
Bases == {Pieces(Executable(verb)) : verb \in {"audit", "check", "format"}}

\* command_prefix: not passed, empty, or main's
Prefixes == {None, Some(<<>>), Some(Pieces(MisePrefix[1]))}

\* "a.py", "my file.py" and the empty text
ArgPool == {<<"a.py">>, <<"my", " ", "file.py">>, <<>>}

\* str(file_path) of a target
TargetTexts == {<<"a.py">>, <<"my", " ", "file.py">>}

\* command_suffix: not passed, or a list of up to MaxArgs tokens
Suffixes == {None} \cup {Some(l) : l \in UNION {[1..n -> ArgPool] : n \in 0..MaxArgs}}

\* a verb's call: Command(executable).run(check=False, command_prefix=...,
\* command_suffix=[*[str(file_path)], *(command_suffix or [])])
VerbCall(base, file_path, command_prefix, command_suffix) ==
    [base |-> base,
     command_prefix |-> command_prefix,
     command_suffix |-> Some(<<file_path>> \o OrEmpty(command_suffix)),
     check |-> Some(FALSE), capture_output |-> None, use_shell |-> None,
     file_path |-> Some(file_path), verb_suffix |-> command_suffix]

\* any other call of run
DirectCall(base, command_prefix, command_suffix, check, capture_output, use_shell) ==
    [base |-> base,
     command_prefix |-> command_prefix,
     command_suffix |-> command_suffix,
     check |-> check, capture_output |-> capture_output, use_shell |-> use_shell,
     file_path |-> None, verb_suffix |-> None]

InitCommand ==
    /\ InitRunIdle
    /\ InitDiscIdle
    /\ \E base \in Bases : \E prefix \in Prefixes : \E suffix \in Suffixes :
          \/ \E file_path \in TargetTexts :
                call = Some(VerbCall(base, file_path, prefix, suffix))
          \/ \E check \in {None, Some(TRUE), Some(FALSE)} :
                \E capture_output \in {None, Some(FALSE)} :
                   \E use_shell \in {None, Some(FALSE)} :
                      call = Some(DirectCall(base, prefix, suffix, check, capture_output,
                                             use_shell))
    /\ tool \in {"present", "absent"}
    /\ cpc = "called"
    /\ argv = None
    /\ outcome = None
    /\ raised = None

\* Command._execute up to the start of the program: subprocess.run hands the
\* joined line to the shell, or starts the token list itself; only the latter
\* fails when the program cannot be started
Execute ==
    /\ cpc = "called"
    /\ LET c == call[1]
           use_shell == ArgOr(c.use_shell, TRUE)
           tokens == OrEmpty(c.command_prefix) \o c.base \o OrEmpty(c.command_suffix)
           constructed == constructed_command(Texts(c.base), OptTexts(c.command_prefix),
                                              OptTexts(c.command_suffix), use_shell)
       IN  IF use_shell
           THEN /\ argv' = Some([constructed_command |-> constructed,
                                 words |-> sh_words(Joined(tokens), <<>>)])
                /\ cpc' = "running"
                /\ UNCHANGED raised
           ELSE IF tool = "absent"
           THEN /\ raised' = Some([type |-> "FileNotFoundError"])
                /\ cpc' = "raised"
                /\ UNCHANGED argv
           ELSE /\ argv' = Some([constructed_command |-> constructed, words |-> tokens])
                /\ cpc' = "running"
                /\ UNCHANGED raised
    /\ UNCHANGED <<call, tool, outcome>>

\* the program ends: subprocess.run raises CalledProcessError when asked to
\* check and the code is not 0, otherwise run builds the CommandResult.  A
\* shell that cannot start the program ends with 127 itself.
Complete ==
    /\ cpc = "running"
    /\ \E code \in (IF tool = "absent" THEN {127} ELSE ExitCodes) :
          LET c == call[1]
              w == ChildWrites(code)
              check == ArgOr(c.check, TRUE)
              capture_output == ArgOr(c.capture_output, TRUE)
              completed == [returncode |-> code,
                            stdout |-> IF capture_output THEN Some(w.stdout) ELSE None,
                            stderr |-> IF capture_output THEN Some(w.stderr) ELSE None]
          IN  IF check /\ code # 0
              THEN /\ raised' = Some([type |-> "CalledProcessError", returncode |-> code])
                   /\ cpc' = "raised"
                   /\ UNCHANGED outcome
              ELSE /\ outcome' = Some(from_subprocess_result(completed, capture_output))
                   /\ cpc' = "returned"
                   /\ UNCHANGED raised
    /\ UNCHANGED <<call, tool, argv>>

NextCommand ==
    \/ (Execute /\ UNCHANGED <<runVars, discVars>>)
    \/ (Complete /\ UNCHANGED <<runVars, discVars>>)

SpecCommand == InitCommand /\ [][NextCommand]_vars

(***************************************************************************)
(* C13.  The program is started with exactly the tokens of prefix, base    *)
(* and suffix, in that order, an absent prefix or suffix counting as       *)
(* empty; for a verb's call these are the caller's prefix, the tool's      *)
(* tokens, the target path and the caller's suffix.                        *)
(***************************************************************************)
C13_PrefixBaseSuffix ==
    argv # None =>
        LET c == call[1] IN
        /\ argv[1].words = OrEmpty(c.command_prefix) \o c.base \o OrEmpty(c.command_suffix)
        /\ c.file_path # None =>
              argv[1].words = OrEmpty(c.command_prefix) \o c.base \o <<c.file_path[1]>>
                                \o OrEmpty(c.verb_suffix)

(***************************************************************************)
(* C14.  A call of run that does not pass check ends, when the program     *)
(* ends with a code other than 0, in a CommandResult that holds this code  *)
(* and in no exception; only a call that passes check=True raises.         *)
(***************************************************************************)
C14_NoRaiseUnlessAsked ==
    /\ (cpc \in {"returned", "raised"} /\ call[1].check # Some(TRUE)) =>
          (raised # None => raised[1].type # "CalledProcessError")
    /\ raised # None /\ raised[1].type = "CalledProcessError" =>
          (call[1].check = Some(TRUE) /\ outcome = None /\ raised[1].returncode # 0)

(***************************************************************************)
(* C15.  When the program cannot be started, run ends in an exception and  *)
(* never in a CommandResult, with the shell as well as without it.         *)
(***************************************************************************)
C15_SpawnFailureIsFatal ==
    tool = "absent" =>
        /\ outcome = None
        /\ cpc \in {"returned", "raised"} => raised # None

(***************************************************************************)
(* C19.  In a CommandResult stdout is None exactly when the output was not *)
(* captured, and so is stderr: a captured stream holds the text the        *)
(* program wrote, the empty text when it wrote nothing.                    *)
(***************************************************************************)
C19_AbsentIffNotCaptured ==
    outcome # None =>
        LET r == outcome[1]
            w == ChildWrites(r.returncode)
        IN  /\ (r.stdout = None) <=> ~r.captured_output
            /\ (r.stderr = None) <=> ~r.captured_output
            /\ r.captured_output => (r.stdout = Some(w.stdout) /\ r.stderr = Some(w.stderr))

(***************************************************************************)
(* C16.  Every record of the written report has exactly the fields path,   *)
(* path_type, valid, changed and output; path_type is "file" or            *)
(* "directory", changed is a boolean or null, and output is a record of    *)
(* the two fields stdout and stderr, for a short-circuited verb too.       *)
(***************************************************************************)
C16_RecordSchema ==
    report_file # None =>
        \A k \in DOMAIN report_file[1] : \A n \in DOMAIN report_file[1][k] :
            LET r == report_file[1][k][n] IN
            /\ DOMAIN r = {"path", "path_type", "valid", "changed", "output"}
            /\ r.path_type \in {"file", "directory"}
            /\ r.valid \in BOOLEAN
            /\ r.changed \in {None, Some(TRUE), Some(FALSE)}
            /\ r.output # None
            /\ DOMAIN r.output[1] = {"stdout", "stderr"}

(***************************************************************************)
(* C17.  A directory is supported by every plugin and is not expanded:     *)
(* the verb is called at most once for an item, on the target path itself, *)
(* and an item has at most one result, whose path is the target; an        *)
(* existing directory is never passed over; in a run that completes, each  *)
(* plugin has called its verb once for, and yielded one result for,        *)
(* exactly the supported targets, so its results are as many as the        *)
(* supported targets.                                                      *)
(***************************************************************************)
\* target t is a directory, or a file with py in its extension
SupportedTarget(t) ==
    \/ InitialFs[KeyOf(t)] = "dir"
    \/ Contains(<<"p", "y">>, lower(file_paths_to_check[t].suffix))

\* the calls of the command's verb for item (p, t)
VerbCalls(p, t) == {i \in ProcsOf(p, t) : processes[i].verb = FirstVerb(command)}

C17_OneResultPerSupportedTarget ==
    /\ \A i \in DOMAIN processes :
          processes[i].cmd = Spawn(processes[i].verb, file_paths_to_check[processes[i].ti]).cmd
    /\ \A i \in DOMAIN yielded :
          yielded[i].result.path = file_paths_to_check[yielded[i].ti]
    /\ \A it \in skipped : InitialFs[KeyOf(it[2])] # "dir"
    /\ \A p \in 1..Len(plugins_to_use) : \A t \in 1..Len(file_paths_to_check) :
          /\ Cardinality(VerbCalls(p, t)) <= 1
          /\ Cardinality(YieldsOf(p, t)) <= 1
          /\ pc = "done" =>
                /\ Cardinality(VerbCalls(p, t)) = (IF SupportedTarget(t) THEN 1 ELSE 0)
                /\ Cardinality(YieldsOf(p, t)) = (IF SupportedTarget(t) THEN 1 ELSE 0)
    /\ pc = "done" =>
          \A p \in 1..Len(plugins_to_use) :
              Cardinality({i \in DOMAIN yielded : yielded[i].pi = p})
                = Cardinality({t \in 1..Len(file_paths_to_check) : SupportedTarget(t)})

\* a completed run over a directory and an unsupported file
C17_Witness ==
    /\ pc = "done"
    /\ Len(file_paths_to_check) = 2
    /\ file_paths_to_check[1] = DirD
    /\ YieldsOf(1, 1) # {}
    /\ yielded[1].result.path_type = "directory"
    /\ <<1, 2>> \in skipped

(***************************************************************************)
(* C18.  The path_type of a result agrees with the filesystem at the       *)
(* moment the result is made: "file" exactly for a regular file,           *)
(* "directory" exactly for a directory, so never "directory" for a path    *)
(* that has been removed; and a result that has been yielded keeps its     *)
(* path_type whatever happens to the filesystem.                           *)
(***************************************************************************)
C18_OnYield ==
    Len(yielded') > Len(yielded) =>
        LET r == yielded'[Len(yielded')].result
            kind == fs[AbsPathOf[r.path]]
        IN  /\ r.path_type = "file" <=> kind = "file"
            /\ r.path_type = "directory" <=> kind = "dir"

C18_Kept == \A i \in DOMAIN yielded : yielded'[i] = yielded[i]

C18_SnapshotMatchesFilesystem == [][C18_OnYield /\ C18_Kept]_vars

(***************************************************************************)
(* C20.  A run is sequential and lazy.  A child exists only while the      *)
(* generator is blocked on it, and then no result is waiting; children     *)
(* and results come in the order of the plugins and, within a plugin, of   *)
(* the targets, none of them for an item after the current one; while a    *)
(* result is waiting, the only thing that happens is that main takes it    *)
(* and inserts it, so every result of an earlier item is in the mapping    *)
(* when the next target is examined or a child is started for it.          *)
(***************************************************************************)
\* item a comes before item b / not after it
Before(a, b) == a.pi < b.pi \/ (a.pi = b.pi /\ a.ti < b.ti)
NotAfter(a, b) == Before(a, b) \/ (a.pi = b.pi /\ a.ti = b.ti)

\* the record of result r is in main's mapping
Inserted(r) ==
    /\ AbsPathOf[r.path] \in DOMAIN results
    /\ r.plugin \in DOMAIN results[AbsPathOf[r.path]]

C20_InOrder ==
    /\ child # None => (pc = "child" /\ pending = None)
    /\ pending # None =>
          /\ pc = "yielded"
          /\ yielded[Len(yielded)] = [pi |-> pi, ti |-> ti, result |-> pending[1]]
    /\ \A i, j \in DOMAIN processes : i < j => NotAfter(processes[i], processes[j])
    /\ \A i, j \in DOMAIN yielded : i < j => Before(yielded[i], yielded[j])
    /\ \A i \in DOMAIN processes : NotAfter(processes[i], [pi |-> pi, ti |-> ti])
    /\ \A i \in DOMAIN yielded :
          /\ NotAfter(yielded[i], [pi |-> pi, ti |-> ti])
          /\ (pending = None \/ i < Len(yielded)) =>
                (Inserted(yielded[i].result) /\ Before(yielded[i], [pi |-> pi, ti |-> ti]))

C20_HandedOverFirst ==
    pending # None =>
        /\ UNCHANGED <<processes, skipped, yielded, error, child, pi>>
        /\ pending' = None
        /\ LET r == pending[1] IN
              /\ AbsPathOf[r.path] \in DOMAIN results'
              /\ r.plugin \in DOMAIN results'[AbsPathOf[r.path]]
        /\ ti' = ti + 1

C20_SequentialAndLazy == []C20_InOrder /\ [][C20_HandedOverFirst]_vars

\* the second plugin is blocked on its child for the second target, the
\* three earlier results consumed
C20_Witness ==
    /\ pc = "child"
    /\ pi = 2 /\ ti = 2
    /\ Len(yielded) = 3
    /\ Cardinality(DOMAIN results) = 2
    /\ pending = None

(***************************************************************************)
(* C21.  In the format command every result the verb produces is valid, so *)
(* the flag is TRUE whenever the report is written: a format run ends      *)
(* either in a fatal error without a report or with a report and exit code *)
(* 0, and never with a report and a non-zero exit.                         *)
(***************************************************************************)
C21_FormatNeverFailsSoftly ==
    command = "format" =>
        /\ \A i \in DOMAIN yielded : yielded[i].result.valid
        /\ was_successful
        /\ report_file # None =>
              /\ pc = "done"
              /\ exit_status = "zero"
              /\ message = "finished"
              /\ error = None
        /\ exit_status = "nonzero" => (pc = "fatal" /\ error # None /\ report_file = None)
        /\ message # "failed, see output"

\* a format run that rewrote a file and ended with its report written
C21_Witness ==
    /\ command = "format"
    /\ pc = "done"
    /\ \E i \in DOMAIN yielded : yielded[i].result.formatted = Some(TRUE)
    /\ \E i \in DOMAIN processes : processes[i].verb = "check" /\ processes[i].returncode = 1
    /\ report_file # None
    /\ exit_status = "zero"

(***************************************************************************)
(* C22.  A fatal error in a format run undoes nothing.  When the run has   *)
(* ended in an error at an item: every earlier item whose check reported   *)
(* invalid has its file rewritten, no child has run for a later item and   *)
(* a file is rewritten only where a destructive command has run, and       *)
(* no report is written although results had been yielded; a rewritten     *)
(* file is never turned back, and nothing happens after the error.         *)
(***************************************************************************)
C22_AtTheError ==
    (command = "format" /\ pc = "fatal") =>
        LET here == [pi |-> pi, ti |-> ti] IN
        /\ report_file = None
        /\ \A i \in DOMAIN processes :
              (/\ processes[i].verb = "check"
               /\ processes[i].returncode = 1
               /\ Before(processes[i], here))
              => /\ content[KeyOf(processes[i].ti)] = "rewritten"
                 /\ YieldsOf(processes[i].pi, processes[i].ti) # {}
        /\ \A p \in 1..Len(plugins_to_use) : \A t \in 1..Len(file_paths_to_check) :
              Later(p, t) => ProcsOf(p, t) = {}
        /\ \A k \in DOMAIN content :
              content[k] = "rewritten" =>
                 \E i \in DOMAIN processes :
                    processes[i].verb = "format" /\ KeyOf(processes[i].ti) = k
        /\ \A i \in DOMAIN yielded : Before(yielded[i], here)

C22_NothingUndone ==
    /\ \A k \in DOMAIN content : content[k] = "rewritten" => content'[k] = "rewritten"
    /\ pc = "fatal" => UNCHANGED <<content, processes, yielded, report_file>>

C22_FatalKeepsEarlierWork == []C22_AtTheError /\ [][C22_NothingUndone]_vars

\* the first target was rewritten and answered, the second one's check crashed
C22_Witness ==
    /\ command = "format"
    /\ pc = "fatal"
    /\ ti = 2
    /\ Len(processes) = 3
    /\ processes[1].returncode = 1 /\ processes[2].returncode = 0
    /\ processes[3].verb = "check" /\ processes[3].returncode = 2
    /\ content[KeyOf(1)] = "rewritten"
    /\ KeyOf(2) # KeyOf(1) /\ content[KeyOf(2)] = "original"
    /\ Len(yielded) = 1
    /\ report_file = None

====
